---- MODULE Spec2Model ----
(***************************************************************************)
(* Model of the learnos server: the flashcards table, the review log and   *)
(* the POST /api/flashcards/review handler (SM-2 scheduling), step by step *)
(* at its await points (getFlashcard, updateFlashcard, createReview).      *)
(*                                                                         *)
(* Numbers.  easeFactor is a `real` column and every value the handler     *)
(* stores is a multiple of 0.01, so it is kept here in hundredths (2.5 is  *)
(* 250, the floor 1.3 is 130).  Math.round(interval * easeFactor) on       *)
(* doubles agrees with the exact rounding used here for every state within *)
(* six reviews of a new card (the first disagreement is 85 * 2.3 at the    *)
(* seventh review), which covers the bounds below.  NaN is a distinguished *)
(* value that arithmetic preserves.                                        *)
(*                                                                         *)
(* Similarities are integers in ten-thousandths (0.3 is 3000).  Embedding *)
(* vectors have integer coordinates and a norm that is a whole number, so  *)
(* that the square roots are exact; two different similarities of such     *)
(* vectors differ by more than one ten-thousandth, so the order, the ties  *)
(* and the comparison with 0.3 are those of the exact values.              *)
(*                                                                         *)
(* Time.  A timestamp is a calendar day and the milliseconds into that     *)
(* day; Date.setDate(getDate() + n) moves the day and keeps the rest.  The *)
(* server and the database read the same clock.                            *)
(*                                                                         *)
(* The Flashcards page of the client is modelled by its React state, the   *)
(* data of its query and the review mutation; getDashboardStats by the     *)
(* counts and the streak it returns (DATE() yields the day of the event).  *)
(***************************************************************************)
EXTENDS Integers, Sequences, FiniteSets, TLC

\* ---------------------------------------------------------------- bounds
MaxCards == 1        \* flashcards that may be created
MaxRequests == 3     \* review requests received in a run, one at a time
MaxInFlight == 2     \* review handlers that may be suspended at an await at once
MaxConcurrent == 2   \* review requests received in a run with concurrent handlers
MaxTimed == 1        \* review requests received in a run with a running clock
MaxDay == 1          \* days the clock may advance
MaxMs == 1           \* milliseconds into a day the clock may show
MaxNotes == 3        \* notes that may be created, embeddings of every kind
MaxManyNotes == 11   \* notes that may be created, all of them with an embedding
MaxChats == 1        \* chat messages that may be accepted
MaxDim == 2          \* longest vector given to cosineSimilarity
MaxCoord == 4        \* largest coordinate of a vector given to cosineSimilarity
MaxDue == 3          \* flashcards due when the Flashcards page is opened
MaxRatings == 4      \* ratings the user may give on the Flashcards page
MaxStatReviews == 31 \* review requests received in a run with dashboard requests
MaxStatDay == 1      \* days the clock may advance in a run with dashboard requests

\* ------------------------------------------------------------- constants
EaseDefault == 250   \* flashcards.easeFactor default 2.5
EaseFloor == 130     \* Math.max(1.3, ...)
PassMark == 3        \* q >= 3
SecondInterval == 6  \* interval after the second pass
NaN == -999999       \* the result of Number("abc"); stays NaN through arithmetic
Unit == 10000        \* a similarity of 1
MinScore == 3000     \* similarity > 0.3
SearchLimit == 10    \* slice(0, 10)
ChatLimit == 3       \* slice(0, 3)
StreakLimit == 30    \* limit(30)

VARIABLES flashcards, reviews, requests, response, served, now,
          notes, messages, search, chat, cosine, client, stats

vars == <<flashcards, reviews, requests, response, served, now,
          notes, messages, search, chat, cosine, client, stats>>

\* The notes and messages tables and the last search and chat exchanges.
ranker == <<notes, messages, search, chat>>

\* ------------------------------------------------------------------- time
Time(d, m) == [day |-> d, ms |-> m]

\* A null timestamp (lastReviewed of a card never reviewed; an Invalid Date).
NoDate == [day |-> -1, ms |-> 0]

\* a < b on timestamps
Before(a, b) == a.day < b.day \/ (a.day = b.day /\ a.ms < b.ms)

\* date.setDate(date.getDate() + n)
AddDays(t, n) == IF n = NaN THEN NoDate ELSE [t EXCEPT !.day = t.day + n]

\* The instants the clock may show.
Times == {Time(d, m) : d \in 0..MaxDay, m \in 0..MaxMs}

\* ------------------------------------------------------------ data model
\* A row of the flashcards table as created by createFlashcard: the
\* spaced-repetition columns take their defaults.
NewFlashcard == [easeFactor |-> EaseDefault, interval |-> 0, repetitions |-> 0]

\* No row (getFlashcard found nothing / a response without a flashcard body).
NoFlashcard ==
    [easeFactor |-> 0, interval |-> 0, repetitions |-> 0,
     nextReview |-> NoDate, lastReviewed |-> NoDate, createdAt |-> NoDate]

\* The spaced-repetition columns of a row.
Repetition(row) ==
    [easeFactor |-> row.easeFactor, interval |-> row.interval,
     repetitions |-> row.repetitions]

\* Fields a create request body may carry besides front, back and tags:
\* none, or spaced-repetition columns of the client's choosing.
BodyExtras == {"none", "srs"}
ExtraFields == [easeFactor |-> EaseFloor, interval |-> 10, repetitions |-> 5]

\* The JSON values a request body may carry as `quality`.
NumberQ(n) == [type |-> "number", n |-> n]
StringQ == [type |-> "string", n |-> 0]      \* a non-numeric string such as "abc"
NullQ == [type |-> "null", n |-> 0]
UndefinedQ == [type |-> "undefined", n |-> 0]  \* the field is missing

ValidQualities == {NumberQ(n) : n \in 0..5}
RawQualities == {NumberQ(n) : n \in -1..6} \cup {StringQ, NullQ, UndefinedQ}

\* flashcardId values of a request body: 0 stands for a missing id, any other
\* number is an id; MaxCards + 1 never names a row.
RawIds == 0..(MaxCards + 1)

\* front / back of a create request: missing (or empty), or some text.
Texts == {"", "text"}

Slots == 1..MaxInFlight

IdleRequest ==
    [pc |-> "idle", flashcardId |-> 0, quality |-> UndefinedQ,
     flashcard |-> NoFlashcard, q |-> 0, easeFactor |-> 0, interval |-> 0,
     repetitions |-> 0, nextReview |-> NoDate, lastReviewed |-> NoDate,
     updated |-> NoFlashcard]

\* The last response sent: the status and, for res.json(flashcard), the row.
NoResponse == [status |-> 0, body |-> NoFlashcard]

\* ----------------------------------------------------------------- ranker
\* notes.embedding: null, or an array of numbers (possibly empty).
NoEmbedding == [set |-> FALSE, values |-> <<>>]
Embedding(values) == [set |-> TRUE, values |-> values]

\* No search or chat request answered yet; no cosineSimilarity call made.
NoSearch == [status |-> 0, query |-> NoEmbedding, results |-> <<>>]
NoChat == [status |-> 0, query |-> NoEmbedding, context |-> <<>>]
NoCosine == [a |-> <<>>, b |-> <<>>, similarity |-> 0, done |-> FALSE]

\* The Flashcards page before its query has answered: no data, no review
\* under way, no rating sent.
NoClient ==
    [flashcards |-> <<>>, isFetching |-> FALSE, isReviewing |-> FALSE,
     currentIndex |-> 0, isPending |-> FALSE, mutations |-> 0,
     flashcardId |-> 0, quality |-> 0, totalCards |-> 0]

\* getDashboardStats has not been called.
NoStats ==
    [done |-> FALSE, totalFlashcards |-> 0, dueFlashcards |-> 0,
     totalNotes |-> 0, reviewStreak |-> 0]

\* ------------------------------------------------------ pure computations
\* Number(quality)
ToNumber(quality) ==
    CASE quality.type = "number" -> quality.n
      [] quality.type = "null" -> 0
      [] OTHER -> NaN

\* Math.round(interval * easeFactor) with easeFactor in hundredths: the
\* nearest integer, a half rounding up.
RoundProduct(interval, easeFactor) ==
    IF interval = NaN \/ easeFactor = NaN THEN NaN
    ELSE (interval * easeFactor + 50) \div 100

\* Variant: the quadratic term is dropped (0.1 - (5 - q) * 0.08).
EaseDeltaLinear(q) ==
    IF q = NaN THEN NaN ELSE 10 - (5 - q) * 8

\* 0.1 - (5 - q) * (0.08 + (5 - q) * 0.02), in hundredths
EaseDelta(q) ==
    IF q = NaN THEN NaN ELSE 10 - (5 - q) * (8 + (5 - q) * 2)

\* Variant: the Math.max floor is missing.
NextEaseNoFloor(easeFactor, q) ==
    IF easeFactor = NaN \/ EaseDelta(q) = NaN THEN NaN
    ELSE easeFactor + EaseDelta(q)

\* Variant: the change is subtracted.
NextEaseSubtract(easeFactor, q) ==
    IF easeFactor = NaN \/ EaseDelta(q) = NaN THEN NaN
    ELSE IF easeFactor - EaseDelta(q) > EaseFloor THEN easeFactor - EaseDelta(q)
    ELSE EaseFloor

\* Math.max(1.3, easeFactor + delta)
NextEase(easeFactor, q) ==
    IF easeFactor = NaN \/ EaseDelta(q) = NaN THEN NaN
    ELSE IF easeFactor + EaseDelta(q) > EaseFloor THEN easeFactor + EaseDelta(q)
    ELSE EaseFloor

\* Variant: the `repetitions === 1` branch is missing.
NextIntervalNoSecond(flashcard, q) ==
    IF q # NaN /\ q >= PassMark
    THEN IF flashcard.repetitions = 0 THEN 1
         ELSE RoundProduct(flashcard.interval, flashcard.easeFactor)
    ELSE 1

\* Variant: Math.floor instead of Math.round.
NextIntervalFloor(flashcard, q) ==
    IF q # NaN /\ q >= PassMark
    THEN IF flashcard.repetitions = 0 THEN 1
         ELSE IF flashcard.repetitions = 1 THEN SecondInterval
         ELSE IF flashcard.interval = NaN \/ flashcard.easeFactor = NaN THEN NaN
         ELSE (flashcard.interval * flashcard.easeFactor) \div 100
    ELSE 1

\* Variant: a lapse sets the interval to 0.
NextIntervalLapseZero(flashcard, q) ==
    IF q # NaN /\ q >= PassMark
    THEN IF flashcard.repetitions = 0 THEN 1
         ELSE IF flashcard.repetitions = 1 THEN SecondInterval
         ELSE RoundProduct(flashcard.interval, flashcard.easeFactor)
    ELSE 0

\* The SM-2 block of the review handler (lines 164-178): the new interval and
\* repetitions are computed from the loaded row.
NextInterval(flashcard, q) ==
    IF q # NaN /\ q >= PassMark
    THEN IF flashcard.repetitions = 0 THEN 1
         ELSE IF flashcard.repetitions = 1 THEN SecondInterval
         ELSE RoundProduct(flashcard.interval, flashcard.easeFactor)
    ELSE 1

\* Variant: a lapse leaves repetitions as they were.
NextRepetitionsNoReset(flashcard, q) ==
    IF q # NaN /\ q >= PassMark THEN flashcard.repetitions + 1
    ELSE flashcard.repetitions

NextRepetitions(flashcard, q) ==
    IF q # NaN /\ q >= PassMark THEN flashcard.repetitions + 1 ELSE 0

\* Variant: the ease factor is updated first and the interval is computed
\* from the updated ease factor.
Sm2EaseFirst(flashcard, q) ==
    [easeFactor |-> NextEase(flashcard.easeFactor, q),
     interval |-> NextInterval([flashcard EXCEPT
                                  !.easeFactor = NextEase(flashcard.easeFactor, q)], q),
     repetitions |-> NextRepetitions(flashcard, q)]

\* The whole block, lines 161-181: interval and repetitions first, the ease
\* factor last, all from the loaded row.
Sm2(flashcard, q) ==
    [easeFactor |-> NextEase(flashcard.easeFactor, q),
     interval |-> NextInterval(flashcard, q),
     repetitions |-> NextRepetitions(flashcard, q)]

\* --------------------------------------------------------- cosineSimilarity
\* a[1]*b[1] + ... + a[n]*b[n], the sums the loop accumulates.
RECURSIVE SumProducts(_, _, _)
SumProducts(a, b, n) ==
    IF n = 0 THEN 0 ELSE SumProducts(a, b, n - 1) + a[n] * b[n]

\* Math.sqrt, on the squares of whole numbers.
Sqrt(n) == CHOOSE r \in 0..n : r * r <= n /\ (r + 1) * (r + 1) > n

\* Variant: the dot product is divided by the squared norm of a alone.
DenominatorFirstOnly(a, b) == SumProducts(a, a, Len(a))

\* Math.sqrt(normA) * Math.sqrt(normB)
Denominator(a, b) ==
    Sqrt(SumProducts(a, a, Len(a))) * Sqrt(SumProducts(b, b, Len(b)))

\* Variant: without the zero-norm return the division is 0 / 0.
CosineSimilarityNoZeroCheck(a, b) ==
    IF Len(a) # Len(b)
    THEN 0
    ELSE LET dotProduct == SumProducts(a, b, Len(a))
             normA == SumProducts(a, a, Len(a))
             normB == SumProducts(b, b, Len(b))
         IN IF normA = 0 \/ normB = 0
            THEN NaN
            ELSE (dotProduct * Unit) \div Denominator(a, b)

\* cosineSimilarity(a, b), in ten-thousandths.
CosineSimilarity(a, b) ==
    IF Len(a) # Len(b)
    THEN 0
    ELSE LET dotProduct == SumProducts(a, b, Len(a))
             normA == SumProducts(a, a, Len(a))
             normB == SumProducts(b, b, Len(b))
         IN IF normA = 0 \/ normB = 0
            THEN 0
            ELSE (dotProduct * Unit) \div Denominator(a, b)

\* The vectors cosineSimilarity is applied to: every length up to MaxDim,
\* coordinates up to MaxCoord either way, a whole-number norm.
Vectors ==
    {v \in UNION {[1..n -> (-MaxCoord)..MaxCoord] : n \in 0..MaxDim} :
        Sqrt(SumProducts(v, v, Len(v))) * Sqrt(SumProducts(v, v, Len(v)))
           = SumProducts(v, v, Len(v))}

\* ---------------------------------------------------------------- ranking
\* getNotesByUserId: the rows, newest first.
NotesByUserId == [i \in 1..Len(notes) |-> notes[Len(notes) + 1 - i]]

\* Variant: only null embeddings are filtered out.
HasEmbeddingNotNull(note) == note.embedding.set

\* note.embedding && note.embedding.length > 0
HasEmbedding(note) == note.embedding.set /\ Len(note.embedding.values) > 0

\* .map(note => ({..., similarity: cosineSimilarity(queryEmbedding, note.embedding)}))
Scored(list, queryEmbedding) ==
    [i \in 1..Len(list) |->
        [id |-> list[i].id,
         similarity |-> CosineSimilarity(queryEmbedding, list[i].embedding.values)]]

\* Variant: an element is put before the elements it ties with.
RECURSIVE InsertBeforeTies(_, _)
InsertBeforeTies(sorted, x) ==
    IF sorted = <<>>
    THEN <<x>>
    ELSE IF Head(sorted).similarity > x.similarity
         THEN <<Head(sorted)>> \o InsertBeforeTies(Tail(sorted), x)
         ELSE <<x>> \o sorted

\* x placed into a list sorted by the comparator (a, b) => b.similarity -
\* a.similarity: after every element the comparator does not put behind it.
RECURSIVE Insert(_, _)
Insert(sorted, x) ==
    IF sorted = <<>>
    THEN <<x>>
    ELSE IF Head(sorted).similarity >= x.similarity
         THEN <<Head(sorted)>> \o Insert(Tail(sorted), x)
         ELSE <<x>> \o sorted

\* .sort((a, b) => b.similarity - a.similarity); Array.prototype.sort is stable.
RECURSIVE SortBySimilarity(_)
SortBySimilarity(list) ==
    IF list = <<>>
    THEN <<>>
    ELSE Insert(SortBySimilarity(SubSeq(list, 1, Len(list) - 1)), list[Len(list)])

\* Variant: .slice(-n), the last n elements.
SliceFromEnd(list, n) ==
    SubSeq(list, IF Len(list) < n THEN 1 ELSE Len(list) - n + 1, Len(list))

\* .slice(0, n)
Slice(list, n) == SubSeq(list, 1, IF Len(list) < n THEN Len(list) ELSE n)

\* Variant: the results are not cut to the limit.
SearchResultsNoLimit(queryEmbedding) ==
    SortBySimilarity(
        SelectSeq(Scored(SelectSeq(NotesByUserId, HasEmbedding), queryEmbedding),
                  LAMBDA result : result.similarity > MinScore))

\* POST /api/search: filter, map, filter, sort, slice.
SearchResults(queryEmbedding) ==
    Slice(SortBySimilarity(
              SelectSeq(Scored(SelectSeq(NotesByUserId, HasEmbedding), queryEmbedding),
                        LAMBDA result : result.similarity > MinScore)),
          SearchLimit)

\* POST /api/chat: filter, map, sort, slice.
RelevantNotes(queryEmbedding) ==
    Slice(SortBySimilarity(
              Scored(SelectSeq(NotesByUserId, HasEmbedding), queryEmbedding)),
          ChatLimit)

\* The notes whose titles and contents make the semantic context: all of
\* relevantNotes when its first element is above 0.3, else none.
SemanticContext(queryEmbedding) ==
    LET relevantNotes == RelevantNotes(queryEmbedding)
    IN IF Len(relevantNotes) > 0 /\ relevantNotes[1].similarity > MinScore
       THEN relevantNotes
       ELSE <<>>

\* What generateEmbedding may give for a note: it throws (the column stays
\* null), or it returns no values, a vector of another length, or a vector.
NoteEmbeddings ==
    {NoEmbedding, Embedding(<<>>), Embedding(<<1>>),
     Embedding(<<1, 0>>), Embedding(<<3, 4>>)}

\* Embeddings that are all similar to <<1, 0>>.
ManyNoteEmbeddings == {Embedding(<<1, 0>>), Embedding(<<3, 4>>)}

\* What generateEmbedding may give for a query or a chat message: it throws
\* (NoEmbedding), or it returns no values or a vector.
QueryEmbeddings ==
    {NoEmbedding, Embedding(<<>>), Embedding(<<1, 0>>), Embedding(<<0, 1>>)}

\* ------------------------------------------------------------------ state
\* Empty tables, no request received.
InitServer ==
    /\ flashcards = <<>>
    /\ reviews = <<>>
    /\ requests = [s \in Slots |-> IdleRequest]
    /\ response = NoResponse
    /\ served = 0
    /\ now = Time(0, 0)
    /\ notes = <<>>
    /\ messages = <<>>
    /\ search = NoSearch
    /\ chat = NoChat
    /\ client = NoClient
    /\ stats = NoStats

Init ==
    /\ InitServer
    /\ cosine = NoCosine

Busy == {s \in Slots : requests[s].pc # "idle"}

\* The handler's response; the slot is released.
Respond(s, status, body) ==
    /\ response' = [status |-> status, body |-> body]
    /\ requests' = [requests EXCEPT ![s] = IdleRequest]

\* Variant: the request body is spread into the inserted values.
InsertFlashcardSpread(extra) ==
    IF extra = "srs"
    THEN [easeFactor |-> ExtraFields.easeFactor, interval |-> ExtraFields.interval,
          repetitions |-> ExtraFields.repetitions,
          nextReview |-> now, lastReviewed |-> NoDate, createdAt |-> now]
    ELSE [easeFactor |-> EaseDefault, interval |-> 0, repetitions |-> 0,
          nextReview |-> now, lastReviewed |-> NoDate, createdAt |-> now]

\* The row createFlashcard inserts: the handler passes userId, front, back
\* and tags only, so every other column takes its default (nextReview and
\* createdAt default to the time of the insert, lastReviewed to null).
InsertFlashcard(extra) ==
    [easeFactor |-> NewFlashcard.easeFactor, interval |-> NewFlashcard.interval,
     repetitions |-> NewFlashcard.repetitions,
     nextReview |-> now, lastReviewed |-> NoDate, createdAt |-> now]

\* POST /api/flashcards: 400 when front or back is missing or empty, else the
\* row is inserted with the column defaults and returned.
CreateFlashcard(front, back, extra) ==
    /\ Len(flashcards) < MaxCards
    /\ IF front = "" \/ back = ""
       THEN /\ response' = [status |-> 400, body |-> NoFlashcard]
            /\ UNCHANGED flashcards
       ELSE /\ flashcards' = Append(flashcards, InsertFlashcard(extra))
            /\ response' = [status |-> 200, body |-> InsertFlashcard(extra)]
    /\ UNCHANGED <<reviews, requests, served, now>>
    /\ UNCHANGED <<ranker, cosine, client, stats>>

\* POST /api/flashcards/review arrives: the field check, then getFlashcard
\* is awaited.
ReceiveReview(s, flashcardId, quality, inflight, maxRequests) ==
    /\ served < maxRequests
    /\ Cardinality(Busy) < inflight
    /\ requests[s].pc = "idle"
    /\ \A t \in Slots : t < s => requests[t].pc # "idle"
    /\ served' = served + 1
    /\ IF flashcardId = 0 \/ quality.type = "undefined"
       THEN /\ response' = [status |-> 400, body |-> NoFlashcard]
            /\ UNCHANGED requests
       ELSE /\ requests' = [requests EXCEPT ![s] =
                               [IdleRequest EXCEPT !.pc = "getFlashcard",
                                                   !.flashcardId = flashcardId,
                                                   !.quality = quality]]
            /\ UNCHANGED response
    /\ UNCHANGED <<flashcards, reviews, now>>
    /\ UNCHANGED <<ranker, cosine, client, stats>>

\* Variant: the `if (!flashcard)` return is missing, so destructuring the
\* undefined row throws and the catch block answers 500.
GetFlashcardNoNotFound(s, later) ==
    /\ requests[s].pc = "getFlashcard"
    /\ IF requests[s].flashcardId \notin DOMAIN flashcards
       THEN /\ Respond(s, 500, NoFlashcard)
            /\ UNCHANGED now
       ELSE LET flashcard == flashcards[requests[s].flashcardId]
                q == ToNumber(requests[s].quality)
                next == Sm2(flashcard, q)
            IN /\ later = now \/ Before(now, later)
               /\ requests' = [requests EXCEPT ![s].pc = "updateFlashcard",
                                               ![s].flashcard = flashcard,
                                               ![s].q = q,
                                               ![s].easeFactor = next.easeFactor,
                                               ![s].interval = next.interval,
                                               ![s].repetitions = next.repetitions,
                                               ![s].nextReview = AddDays(now, next.interval),
                                               ![s].lastReviewed = later]
               /\ now' = later
               /\ UNCHANGED response
    /\ UNCHANGED <<flashcards, reviews, served>>
    /\ UNCHANGED <<ranker, cosine, client, stats>>

\* getFlashcard resolves: 404, or the SM-2 block runs on the loaded row,
\* nextReview is the clock reading of line 184 moved by interval days,
\* lastReviewed is the clock reading of line 193 (`later`, the same instant
\* or a later one), and updateFlashcard is awaited.
GetFlashcard(s, later) ==
    /\ requests[s].pc = "getFlashcard"
    /\ IF requests[s].flashcardId \notin DOMAIN flashcards
       THEN /\ Respond(s, 404, NoFlashcard)
            /\ UNCHANGED now
       ELSE LET flashcard == flashcards[requests[s].flashcardId]
                q == ToNumber(requests[s].quality)
                next == Sm2(flashcard, q)
            IN /\ later = now \/ Before(now, later)
               /\ requests' = [requests EXCEPT ![s].pc = "updateFlashcard",
                                               ![s].flashcard = flashcard,
                                               ![s].q = q,
                                               ![s].easeFactor = next.easeFactor,
                                               ![s].interval = next.interval,
                                               ![s].repetitions = next.repetitions,
                                               ![s].nextReview = AddDays(now, next.interval),
                                               ![s].lastReviewed = later]
               /\ now' = later
               /\ UNCHANGED response
    /\ UNCHANGED <<flashcards, reviews, served>>
    /\ UNCHANGED <<ranker, cosine, client, stats>>

\* Variant: the update has no where clause and overwrites every row.
UpdateFlashcardNoWhere(s) ==
    /\ requests[s].pc = "updateFlashcard"
    /\ IF requests[s].interval = NaN \/ requests[s].repetitions = NaN
       THEN /\ Respond(s, 500, NoFlashcard)
            /\ UNCHANGED flashcards
       ELSE LET row == [flashcards[requests[s].flashcardId] EXCEPT
                           !.easeFactor = requests[s].easeFactor,
                           !.interval = requests[s].interval,
                           !.repetitions = requests[s].repetitions,
                           !.nextReview = requests[s].nextReview,
                           !.lastReviewed = requests[s].lastReviewed]
            IN /\ flashcards' = [id \in DOMAIN flashcards |-> row]
               /\ requests' = [requests EXCEPT ![s].pc = "createReview",
                                               ![s].updated = row]
               /\ UNCHANGED response
    /\ UNCHANGED <<reviews, served, now>>
    /\ UNCHANGED <<ranker, cosine, client, stats>>

\* updateFlashcard resolves: the row is overwritten with the handler's values
\* (an integer column refuses NaN), then createReview is awaited.
UpdateFlashcard(s) ==
    /\ requests[s].pc = "updateFlashcard"
    /\ IF requests[s].interval = NaN \/ requests[s].repetitions = NaN
       THEN /\ Respond(s, 500, NoFlashcard)
            /\ UNCHANGED flashcards
       ELSE LET row == [flashcards[requests[s].flashcardId] EXCEPT
                           !.easeFactor = requests[s].easeFactor,
                           !.interval = requests[s].interval,
                           !.repetitions = requests[s].repetitions,
                           !.nextReview = requests[s].nextReview,
                           !.lastReviewed = requests[s].lastReviewed]
            IN /\ flashcards' = [flashcards EXCEPT ![requests[s].flashcardId] = row]
               /\ requests' = [requests EXCEPT ![s].pc = "createReview",
                                               ![s].updated = row]
               /\ UNCHANGED response
    /\ UNCHANGED <<reviews, served, now>>
    /\ UNCHANGED <<ranker, cosine, client, stats>>

\* Variant: the event takes the place of the log.
CreateReviewReplace(s) ==
    /\ requests[s].pc = "createReview"
    /\ IF requests[s].q = NaN
       THEN /\ Respond(s, 500, NoFlashcard)
            /\ UNCHANGED reviews
       ELSE /\ reviews' = <<[flashcardId |-> requests[s].flashcardId,
                             quality |-> requests[s].q,
                             reviewedAt |-> now]>>
            /\ Respond(s, 200, requests[s].updated)
    /\ UNCHANGED <<flashcards, served, now>>
    /\ UNCHANGED <<ranker, cosine, client, stats>>

\* createReview resolves: the event is inserted (the integer column refuses
\* NaN) and the updated row is sent.
CreateReview(s) ==
    /\ requests[s].pc = "createReview"
    /\ IF requests[s].q = NaN
       THEN /\ Respond(s, 500, NoFlashcard)
            /\ UNCHANGED reviews
       ELSE /\ reviews' = Append(reviews, [flashcardId |-> requests[s].flashcardId,
                                           quality |-> requests[s].q,
                                           reviewedAt |-> now])
            /\ Respond(s, 200, requests[s].updated)
    /\ UNCHANGED <<flashcards, served, now>>
    /\ UNCHANGED <<ranker, cosine, client, stats>>

\* An awaited storage call rejects: the catch block answers 500.
StorageFail(s) ==
    /\ requests[s].pc \in {"getFlashcard", "updateFlashcard", "createReview"}
    /\ Respond(s, 500, NoFlashcard)
    /\ UNCHANGED <<flashcards, reviews, served, now>>
    /\ UNCHANGED <<ranker, cosine, client, stats>>

\* Time passes.
Tick(t) ==
    /\ t \in Times
    /\ Before(now, t)
    /\ now' = t
    /\ UNCHANGED <<flashcards, reviews, requests, response, served>>
    /\ UNCHANGED <<ranker, cosine, client, stats>>

\* POST /api/notes: 400 when title or content is missing or empty; else the
\* row is inserted with a null embedding, and the embedding is stored when
\* generateEmbedding returns one.
CreateNote(title, content, embedding, maxNotes) ==
    /\ Len(notes) < maxNotes
    /\ IF title = "" \/ content = ""
       THEN UNCHANGED notes
       ELSE notes' = Append(notes, [id |-> Len(notes) + 1, embedding |-> embedding])
    /\ UNCHANGED <<flashcards, reviews, requests, response, served, now>>
    /\ UNCHANGED <<messages, search, chat, cosine, client, stats>>

\* Variant: an empty ranking is answered with an error.
SearchEmptyIsError(query, queryEmbedding) ==
    /\ search' = IF query = ""
                 THEN [status |-> 400, query |-> NoEmbedding, results |-> <<>>]
                 ELSE IF ~queryEmbedding.set
                      THEN [status |-> 500, query |-> NoEmbedding, results |-> <<>>]
                      ELSE IF SearchResults(queryEmbedding.values) = <<>>
                           THEN [status |-> 500, query |-> queryEmbedding,
                                 results |-> <<>>]
                           ELSE [status |-> 200, query |-> queryEmbedding,
                                 results |-> SearchResults(queryEmbedding.values)]
    /\ UNCHANGED <<flashcards, reviews, requests, response, served, now>>
    /\ UNCHANGED <<notes, messages, chat, cosine, client, stats>>

\* POST /api/search: 400 when the query is missing or empty, 500 when
\* generateEmbedding throws, else the ranked notes.  The exchange keeps the
\* query embedding next to the response.
Search(query, queryEmbedding) ==
    /\ search' = IF query = ""
                 THEN [status |-> 400, query |-> NoEmbedding, results |-> <<>>]
                 ELSE IF ~queryEmbedding.set
                      THEN [status |-> 500, query |-> NoEmbedding, results |-> <<>>]
                      ELSE [status |-> 200, query |-> queryEmbedding,
                            results |-> SearchResults(queryEmbedding.values)]
    /\ UNCHANGED <<flashcards, reviews, requests, response, served, now>>
    /\ UNCHANGED <<notes, messages, chat, cosine, client, stats>>

\* POST /api/chat: 400 when the message is missing or empty; else the user
\* message is saved, the semantic context is built (none when
\* generateEmbedding throws), and the assistant message is saved unless
\* generateChatResponse throws (500).
Chat(message, queryEmbedding, answered) ==
    /\ IF message = ""
       THEN /\ chat' = [status |-> 400, query |-> NoEmbedding, context |-> <<>>]
            /\ UNCHANGED messages
       ELSE /\ Len(messages) + 2 <= 2 * MaxChats
            /\ chat' = [status |-> IF answered THEN 200 ELSE 500,
                        query |-> queryEmbedding,
                        context |-> IF queryEmbedding.set
                                    THEN SemanticContext(queryEmbedding.values)
                                    ELSE <<>>]
            /\ messages' = IF answered
                           THEN messages \o <<"user", "assistant">>
                           ELSE Append(messages, "user")
    /\ UNCHANGED <<flashcards, reviews, requests, response, served, now>>
    /\ UNCHANGED <<notes, search, cosine, client, stats>>

\* One call of cosineSimilarity.
ApplyCosine ==
    /\ ~cosine.done
    /\ cosine' = [cosine EXCEPT !.similarity = CosineSimilarity(cosine.a, cosine.b),
                                !.done = TRUE]
    /\ UNCHANGED <<flashcards, reviews, requests, response, served, now>>
    /\ UNCHANGED <<ranker, client, stats>>

\* ------------------------------------------------------ the Flashcards page
\* storage.getFlashcardsByUserId: the rows ordered by nextReview (rows with
\* the same nextReview in the order of their ids).
CardRank(id) ==
    Cardinality({j \in DOMAIN flashcards :
                    \/ Before(flashcards[j].nextReview, flashcards[id].nextReview)
                    \/ /\ flashcards[j].nextReview = flashcards[id].nextReview
                       /\ j < id}) + 1

GetFlashcardsByUserId ==
    [k \in 1..Len(flashcards) |->
        LET id == CHOOSE i \in DOMAIN flashcards : CardRank(i) = k
        IN  [id |-> id, nextReview |-> flashcards[id].nextReview]]

\* flashcards.filter(card => new Date(card.nextReview) <= new Date())
DueFlashcards ==
    SelectSeq(client.flashcards, LAMBDA card : ~Before(now, card.nextReview))

\* if (isReviewing && dueFlashcards.length > 0): FlashcardReview is rendered.
ReviewShown == client.isReviewing /\ Len(DueFlashcards) > 0

\* The Review button (rendered on the list page when a card is due):
\* startReview.
StartReview ==
    /\ ~ReviewShown
    /\ Len(DueFlashcards) > 0
    /\ client' = [client EXCEPT !.isReviewing = TRUE, !.currentIndex = 0]
    /\ UNCHANGED <<flashcards, reviews, requests, response, served, now>>
    /\ UNCHANGED <<ranker, cosine, stats>>

\* A rating button (disabled while the mutation is pending):
\* reviewMutation.mutate(quality) posts the id of the flashcard shown.
HandleReview(quality) ==
    /\ ReviewShown
    /\ client.currentIndex < Len(DueFlashcards)
    /\ ~client.isPending
    /\ client.mutations < MaxRatings
    /\ client' = [client EXCEPT
                     !.isPending = TRUE,
                     !.mutations = @ + 1,
                     !.flashcardId = DueFlashcards[client.currentIndex + 1].id,
                     !.quality = quality,
                     !.totalCards = Len(DueFlashcards)]
    /\ UNCHANGED <<flashcards, reviews, requests, response, served, now>>
    /\ UNCHANGED <<ranker, cosine, stats>>

\* The posted review reaches the server.
PostReview(s) ==
    /\ served < client.mutations
    /\ ReceiveReview(s, client.flashcardId, NumberQ(client.quality), 1, MaxRatings)

\* handleReviewComplete, with the length of the due list its closure holds.
HandleReviewComplete(length) ==
    IF client.currentIndex < length - 1
    THEN [client EXCEPT !.currentIndex = @ + 1]
    ELSE [client EXCEPT !.isReviewing = FALSE, !.currentIndex = 0]

\* The mutation settles.  onSuccess invalidates the flashcards query, which
\* starts a refetch, and calls onComplete: the callback of the render in
\* which the rating was made or of the latest render, as the query library
\* keeps it.  onError shows a toast.
ReviewSettled(latest) ==
    /\ client.isPending
    /\ served = client.mutations
    /\ Busy = {}
    /\ LET length == IF latest THEN Len(DueFlashcards) ELSE client.totalCards
       IN  client' = IF response.status = 200
                     THEN [HandleReviewComplete(length) EXCEPT
                              !.isPending = FALSE, !.isFetching = TRUE]
                     ELSE [client EXCEPT !.isPending = FALSE]
    /\ UNCHANGED <<flashcards, reviews, requests, response, served, now>>
    /\ UNCHANGED <<ranker, cosine, stats>>

\* GET /api/flashcards answers: the query's data is replaced.
Refetch ==
    /\ client.isFetching
    /\ client' = [client EXCEPT !.flashcards = GetFlashcardsByUserId,
                                !.isFetching = FALSE]
    /\ UNCHANGED <<flashcards, reviews, requests, response, served, now>>
    /\ UNCHANGED <<ranker, cosine, stats>>

\* ------------------------------------------------------- getDashboardStats
\* select DATE(reviewedAt) ... orderBy(desc(reviews.reviewedAt)).limit(30):
\* the days of the newest review events, newest first.
RecentReviews ==
    [i \in 1..(IF Len(reviews) < StreakLimit THEN Len(reviews) ELSE StreakLimit) |->
        reviews[Len(reviews) + 1 - i].reviewedAt.day]

\* [...new Set(dates)]: each value once, in the order of first occurrence.
UniqueDates(dates) ==
    LET first == {i \in 1..Len(dates) : \A j \in 1..(i - 1) : dates[j] # dates[i]}
    IN  [k \in 1..Cardinality(first) |->
            dates[CHOOSE i \in first : Cardinality({j \in first : j < i}) = k - 1]]

\* The streak loop: 0 unless the newest date is today, else the length of
\* the longest prefix in which each date is the day before its predecessor.
ReviewStreak(uniqueDates, today) ==
    IF Len(uniqueDates) = 0 \/ uniqueDates[1] # today
    THEN 0
    ELSE CHOOSE n \in 1..Len(uniqueDates) :
            /\ \A i \in 2..n : uniqueDates[i - 1] - uniqueDates[i] = 1
            /\ n < Len(uniqueDates) => uniqueDates[n] - uniqueDates[n + 1] # 1

\* GET /api/dashboard/stats: the counts and the review streak (the weekly
\* histogram is left out).
GetDashboardStats ==
    /\ stats' = [done |-> TRUE,
                 totalFlashcards |-> Len(flashcards),
                 dueFlashcards |->
                     Cardinality({id \in DOMAIN flashcards :
                                     ~Before(now, flashcards[id].nextReview)}),
                 totalNotes |-> Len(notes),
                 reviewStreak |-> ReviewStreak(UniqueDates(RecentReviews), now.day)]
    /\ UNCHANGED <<flashcards, reviews, requests, response, served, now>>
    /\ UNCHANGED <<ranker, cosine, client>>

\* Midnight passes.
NextDay ==
    /\ now.day < MaxStatDay
    /\ now' = Time(now.day + 1, 0)
    /\ UNCHANGED <<flashcards, reviews, requests, response, served>>
    /\ UNCHANGED <<ranker, cosine, client, stats>>

\* ----------------------------------------------------------- specifications
Handlers ==
    \/ \E s \in Slots : GetFlashcard(s, now)
    \/ \E s \in Slots : UpdateFlashcard(s)
    \/ \E s \in Slots : CreateReview(s)

\* Any request body, one request at a time; storage calls succeed unless the
\* database refuses the value.
Next ==
    \/ \E front \in Texts, back \in Texts, extra \in BodyExtras :
          CreateFlashcard(front, back, extra)
    \/ \E s \in Slots, id \in RawIds, quality \in RawQualities :
          ReceiveReview(s, id, quality, 1, MaxRequests)
    \/ Handlers

Spec == Init /\ [][Next]_vars

\* Qualities 0..5 only, one request at a time, and any awaited storage call
\* may reject.
NextValid ==
    \/ \E front \in Texts, back \in Texts, extra \in BodyExtras :
          CreateFlashcard(front, back, extra)
    \/ \E s \in Slots, id \in RawIds, quality \in ValidQualities :
          ReceiveReview(s, id, quality, 1, MaxRequests)
    \/ Handlers
    \/ \E s \in Slots : StorageFail(s)

SpecValid == Init /\ [][NextValid]_vars

\* Qualities 0..5 only, one request at a time, storage calls succeed: the
\* review log is then the card's history.
NextSeq ==
    \/ \E front \in Texts, back \in Texts, extra \in BodyExtras :
          CreateFlashcard(front, back, extra)
    \/ \E s \in Slots, id \in RawIds, quality \in ValidQualities :
          ReceiveReview(s, id, quality, 1, MaxRequests)
    \/ Handlers

SpecSeq == Init /\ [][NextSeq]_vars

\* Qualities 0..5 only, handlers interleaved at their awaits, storage calls
\* succeed.
NextConc ==
    \/ \E front \in Texts, back \in Texts, extra \in BodyExtras :
          CreateFlashcard(front, back, extra)
    \/ \E s \in Slots, id \in RawIds, quality \in ValidQualities :
          ReceiveReview(s, id, quality, MaxInFlight, MaxConcurrent)
    \/ Handlers

SpecConc == Init /\ [][NextConc]_vars

\* Two flashcards have been created and not reviewed.
InitPair ==
    /\ now = Time(0, 0)
    /\ flashcards = <<InsertFlashcard("none"), InsertFlashcard("none")>>
    /\ reviews = <<>>
    /\ requests = [s \in Slots |-> IdleRequest]
    /\ response = [status |-> 200, body |-> InsertFlashcard("none")]
    /\ served = 0
    /\ notes = <<>>
    /\ messages = <<>>
    /\ search = NoSearch
    /\ chat = NoChat
    /\ client = NoClient
    /\ stats = NoStats
    /\ cosine = NoCosine

\* Reviews of the two flashcards, qualities 0..5 only, handlers interleaved
\* at their awaits, storage calls succeed.
NextPair ==
    \/ \E s \in Slots, id \in 1..2, quality \in ValidQualities :
          ReceiveReview(s, id, quality, MaxInFlight, MaxConcurrent)
    \/ Handlers

SpecPair == InitPair /\ [][NextPair]_vars

\* The Flashcards page is opened on day 1 and its query is in flight; up to
\* MaxDue flashcards were created on day 0, one millisecond apart, and have
\* not been reviewed.
InitClient ==
    /\ now = Time(1, 0)
    /\ \E n \in 1..MaxDue :
          flashcards = [i \in 1..n |->
                           [InsertFlashcard("none") EXCEPT
                               !.nextReview = Time(0, i - 1),
                               !.createdAt = Time(0, i - 1)]]
    /\ reviews = <<>>
    /\ requests = [s \in Slots |-> IdleRequest]
    /\ response = NoResponse
    /\ served = 0
    /\ notes = <<>>
    /\ messages = <<>>
    /\ search = NoSearch
    /\ chat = NoChat
    /\ cosine = NoCosine
    /\ client = [NoClient EXCEPT !.isFetching = TRUE]
    /\ stats = NoStats

\* The qualities of the four rating buttons.
ButtonQualities == {0, 3, 4, 5}

\* A user who rates the flashcards presented and never leaves the review;
\* the server handles one review at a time and its storage calls succeed.
NextClient ==
    \/ StartReview
    \/ \E quality \in ButtonQualities : HandleReview(quality)
    \/ \E s \in Slots : PostReview(s)
    \/ Handlers
    \/ \E latest \in BOOLEAN : ReviewSettled(latest)
    \/ Refetch

SpecClient == InitClient /\ [][NextClient]_vars

\* One flashcard has been created and not reviewed.
InitStats ==
    /\ now = Time(0, 0)
    /\ flashcards = <<InsertFlashcard("none")>>
    /\ reviews = <<>>
    /\ requests = [s \in Slots |-> IdleRequest]
    /\ response = [status |-> 200, body |-> InsertFlashcard("none")]
    /\ served = 0
    /\ notes = <<>>
    /\ messages = <<>>
    /\ search = NoSearch
    /\ chat = NoChat
    /\ cosine = NoCosine
    /\ client = NoClient
    /\ stats = NoStats

\* Lapses of the flashcard, one request at a time, storage calls succeed;
\* days pass and the dashboard is requested.
NextStats ==
    \/ \E s \in Slots : ReceiveReview(s, 1, NumberQ(0), 1, MaxStatReviews)
    \/ Handlers
    \/ NextDay
    \/ GetDashboardStats

SpecStats == InitStats /\ [][NextStats]_vars

\* A lapse and a pass.
TimedQualities == {NumberQ(0), NumberQ(4)}

\* A lapse or a pass, one request at a time, storage calls succeed, and the
\* clock runs: between requests, and between the handler's two readings.
NextTimed ==
    \/ \E front \in Texts, back \in Texts, extra \in BodyExtras :
          CreateFlashcard(front, back, extra)
    \/ \E s \in Slots, id \in RawIds, quality \in TimedQualities :
          ReceiveReview(s, id, quality, 1, MaxTimed)
    \/ \E s \in Slots, later \in Times : GetFlashcard(s, later)
    \/ \E s \in Slots : UpdateFlashcard(s)
    \/ \E s \in Slots : CreateReview(s)
    \/ \E t \in Times : Tick(t)

SpecTimed == Init /\ [][NextTimed]_vars

\* Notes with embeddings of every kind, searches and chat messages.
NextRank ==
    \/ \E title \in Texts, content \in Texts, embedding \in NoteEmbeddings :
          CreateNote(title, content, embedding, MaxNotes)
    \/ \E query \in Texts, queryEmbedding \in QueryEmbeddings :
          Search(query, queryEmbedding)
    \/ \E message \in Texts, queryEmbedding \in QueryEmbeddings, answered \in BOOLEAN :
          Chat(message, queryEmbedding, answered)

SpecRank == Init /\ [][NextRank]_vars

\* More notes than a search returns, each with an embedding.
NextManyNotes ==
    \/ \E embedding \in ManyNoteEmbeddings :
          CreateNote("text", "text", embedding, MaxManyNotes)
    \/ \E queryEmbedding \in QueryEmbeddings : Search("text", queryEmbedding)

SpecManyNotes == Init /\ [][NextManyNotes]_vars

\* cosineSimilarity applied to two vectors.
InitCosine ==
    /\ InitServer
    /\ cosine \in {[a |-> a, b |-> b, similarity |-> 0, done |-> FALSE] :
                      a \in Vectors, b \in Vectors}

NextCosine == ApplyCosine

SpecCosine == InitCosine /\ [][NextCosine]_vars

TypeOK ==
    /\ Len(flashcards) <= MaxCards + MaxDue
    /\ served >= 0
    /\ \A s \in Slots : requests[s].pc \in
          {"idle", "getFlashcard", "updateFlashcard", "createReview"}
    /\ response.status \in {0, 200, 400, 404, 500}
    /\ now \in Times
    /\ Len(notes) <= MaxManyNotes
    /\ Len(messages) <= 2 * MaxChats
    /\ search.status \in {0, 200, 400, 500}
    /\ chat.status \in {0, 200, 400, 500}
    /\ cosine.done \in BOOLEAN

\* ------------------------------------------------- vocabulary of the claims
\* The qualities logged for one flashcard, oldest first.
EventsOf(id) == SelectSeq(reviews, LAMBDA e : e.flashcardId = id)
QualitiesOf(id) == [i \in 1..Len(EventsOf(id)) |-> EventsOf(id)[i].quality]

\* Some handler is at an await for this flashcard.
InFlightOn(id) == \E s \in Slots : requests[s].pc # "idle" /\ requests[s].flashcardId = id

\* Slot s takes a handler step / answers / has its update applied in this step.
Steps(s) == requests[s].pc # "idle" /\ requests'[s] # requests[s]
Answers(s) == requests[s].pc # "idle" /\ requests'[s].pc = "idle"
Updates(s) == requests[s].pc = "updateFlashcard" /\ requests'[s].pc = "createReview"

\* n is i * e (e in hundredths) rounded to the nearest integer, halves up.
IsRounded(n, i, e) == 100 * n - 50 <= i * e /\ i * e < 100 * n + 50

\* The ease-factor change per quality 0..5, in hundredths.
DeltaTable == <<-80, -54, -32, -14, 0, 10>>

Max(a, b) == IF a >= b THEN a ELSE b

\* ------------------------------------------------------------------ claims

\* C1: a review request for an existing flashcard whose quality is not an
\* integer in 0..5 changes neither the flashcard table nor the review log at
\* any of its steps, and is not answered with success.
C1_InvalidQualityRejected ==
    [][\A s \in Slots :
          (Steps(s) /\ requests[s].quality \notin ValidQualities
                    /\ requests[s].flashcardId \in DOMAIN flashcards)
          => /\ flashcards' = flashcards
             /\ reviews' = reviews
             /\ (Answers(s) => response'.status = 400)]_vars

\* C2: every stored easeFactor is at least 1.3 in every state reached by
\* reviews with quality 0..5.
C2_EaseFloor ==
    \A id \in DOMAIN flashcards : flashcards[id].easeFactor >= 130

\* C2 witness: two lapses have driven a card onto the floor.
C2_Witness ==
    \E id \in DOMAIN flashcards :
        /\ flashcards[id].easeFactor = 130
        /\ Len(EventsOf(id)) >= 2
        /\ \A i \in 1..Len(EventsOf(id)) : QualitiesOf(id)[i] < 3

\* C3: when the only two review requests received were for the same flashcard
\* and both were logged, the stored state is the two transitions applied one
\* after the other in some order.
C3_Serialized ==
    \A id \in DOMAIN flashcards :
        (served = 2 /\ Busy = {} /\ Len(reviews) = 2 /\ Len(EventsOf(id)) = 2)
        => LET q1 == QualitiesOf(id)[1]
               q2 == QualitiesOf(id)[2]
           IN Repetition(flashcards[id]) \in {Sm2(Sm2(NewFlashcard, q1), q2),
                                              Sm2(Sm2(NewFlashcard, q2), q1)}

\* C4: whenever no handler is at an await for a flashcard, its repetition
\* state has left the creation defaults exactly if a review event for it is
\* in the log (so a request that ended in an error has persisted nothing).
C4_AllOrNothing ==
    \A id \in DOMAIN flashcards :
        ~InFlightOn(id)
        => (Repetition(flashcards[id]) # NewFlashcard <=> Len(EventsOf(id)) > 0)

\* C5: a handler that answers 200 appends in that step exactly one event, for
\* its flashcard and with the quality value of the request body; every other
\* step of a handler, and every step that answers 400 or 404, appends none.
C5_OneEventPerSuccess ==
    [][/\ \A s \in Slots :
            Steps(s) =>
               IF Answers(s) /\ response'.status = 200
               THEN /\ requests[s].quality.type = "number"
                    /\ reviews' = Append(reviews,
                                      [flashcardId |-> requests[s].flashcardId,
                                       quality |-> requests[s].quality.n,
                                       reviewedAt |-> now])
               ELSE reviews' = reviews
       /\ (response' # response /\ response'.status \in {400, 404})
            => reviews' = reviews]_vars

C8_EaseUpdate ==
    [][\A s \in Slots :
          (Updates(s) /\ requests[s].q \in 0..5)
          => LET q == requests[s].q
                 e == requests[s].flashcard.easeFactor
                 new == flashcards'[requests[s].flashcardId]
             IN /\ new.easeFactor = Max(130, e + DeltaTable[q + 1])
                /\ DeltaTable[q + 1] = 10 - (5 - q) * (8 + (5 - q) * 2)]_vars

\* C8 witness: an ease update of a failing review, away from the floor, has
\* been applied.
C8_Witness ==
    \E s \in Slots :
        /\ requests[s].pc = "createReview"
        /\ requests[s].q \in 0..2
        /\ flashcards[requests[s].flashcardId].easeFactor > 130
        /\ flashcards[requests[s].flashcardId].easeFactor
              < requests[s].flashcard.easeFactor

C10_IntervalFromNewEase ==
    \A id \in DOMAIN flashcards :
        (~InFlightOn(id) /\ QualitiesOf(id) = <<4, 4, 5>>)
        => IsRounded(flashcards[id].interval, 6, flashcards[id].easeFactor)

\* C10 amended: after reviews 4, 4, 5 the interval is 6 times the ease factor
\* the card had before the third review (2.5), rounded, which is 15; the
\* ease factor stored by the third review is 2.6.
C10_IntervalFromPriorEase ==
    \A id \in DOMAIN flashcards :
        (~InFlightOn(id) /\ QualitiesOf(id) = <<4, 4, 5>>)
        => /\ IsRounded(flashcards[id].interval, 6, 250)
           /\ flashcards[id].interval = 15
           /\ flashcards[id].easeFactor = 260
           /\ flashcards[id].repetitions = 3

\* C10 witness: the three reviews 4, 4, 5 have been processed.
C10_Witness ==
    \E id \in DOMAIN flashcards :
        ~InFlightOn(id) /\ QualitiesOf(id) = <<4, 4, 5>>

\* C11: no step of a review request whose flashcard id names no row changes
\* the flashcards table or the review log, and its answer is 404.
C11_UnknownFlashcard ==
    [][\A s \in Slots :
          (Steps(s) /\ requests[s].flashcardId \notin DOMAIN flashcards)
          => /\ flashcards' = flashcards
             /\ reviews' = reviews
             /\ Answers(s)
             /\ response'.status = 404]_vars

\* C11 witness: a request for an unknown id has been answered, while another
\* flashcard exists and has been reviewed.
C11_Witness ==
    /\ response.status = 404
    /\ Len(reviews) > 0

\* C18: a reviewed flashcard's nextReview is its lastReviewed moved by exactly
\* interval whole days: both are the one instant of the review.
C18_ReviewDates ==
    \A id \in DOMAIN flashcards :
        flashcards[id].lastReviewed # NoDate
        => flashcards[id].nextReview =
              AddDays(flashcards[id].lastReviewed, flashcards[id].interval)

\* C19: a flashcard not reviewed since its creation has easeFactor 2.5,
\* interval 0, repetitions 0, nextReview equal to its creation time and no
\* lastReviewed, whatever the create body carried; so it is due at once and
\* stays due.
C19_CreatedDefaults ==
    \A id \in DOMAIN flashcards :
        flashcards[id].lastReviewed = NoDate
        => /\ flashcards[id].easeFactor = EaseDefault
           /\ flashcards[id].interval = 0
           /\ flashcards[id].repetitions = 0
           /\ flashcards[id].nextReview = flashcards[id].createdAt
           /\ ~Before(now, flashcards[id].nextReview)

\* C19 witness: a flashcard created after the clock had advanced is still
\* unreviewed at a later time.
C19_Witness ==
    \E id \in DOMAIN flashcards :
        /\ flashcards[id].lastReviewed = NoDate
        /\ Before(Time(0, 0), flashcards[id].createdAt)
        /\ Before(flashcards[id].createdAt, now)

\* The number of consecutive passing qualities at the end of a log.
RECURSIVE TrailingPasses(_)
TrailingPasses(log) ==
    IF log = <<>> \/ log[Len(log)] < PassMark
    THEN 0
    ELSE 1 + TrailingPasses(SubSeq(log, 1, Len(log) - 1))

\* C20: when no review of a flashcard is in progress, its repetitions is the
\* number of consecutive passing reviews at the end of its review log.
C20_RepetitionsCountPasses ==
    \A id \in DOMAIN flashcards :
        ~InFlightOn(id)
        => flashcards[id].repetitions = TrailingPasses(QualitiesOf(id))

\* The hits of the last search response and of the last chat context.
Hits == {search.results, chat.context}

\* C12: a search response has at most 10 results, each with a similarity
\* strictly above 0.3.
C12_SearchBounded ==
    /\ Len(search.results) <= SearchLimit
    /\ \A i \in 1..Len(search.results) : search.results[i].similarity > MinScore

\* C12 witness: a search over more than 10 matching notes returned 10 results.
C12_Witness ==
    /\ search.status = 200
    /\ Len(search.results) = SearchLimit
    /\ \E i \in 1..Len(search.results) : search.results[i].id > SearchLimit

\* C13: the notes injected as chat context are at most 3 and each has a
\* similarity strictly above 0.3.
C13_ChatContextBounded ==
    /\ Len(chat.context) <= ChatLimit
    /\ \A i \in 1..Len(chat.context) : chat.context[i].similarity > MinScore

\* C14: search results and chat context are in non-increasing order of
\* similarity, and notes of equal similarity keep the order of the notes
\* list (newest first).
C14_Ordered ==
    \A hits \in Hits :
        \A i \in 1..Len(hits), j \in 1..Len(hits) :
            i < j => \/ hits[i].similarity > hits[j].similarity
                     \/ /\ hits[i].similarity = hits[j].similarity
                        /\ hits[i].id > hits[j].id

\* C14 witness: a search returned two notes of equal similarity before a less
\* similar note that is newer than one of them.
C14_Witness ==
    /\ Len(search.results) = 3
    /\ search.results[1].similarity = search.results[2].similarity
    /\ search.results[2].similarity > search.results[3].similarity
    /\ search.results[2].id < search.results[3].id

\* C15: every note in a search result or in a chat context has an embedding
\* that is neither null nor empty.
C15_EmbeddedOnly ==
    \A hits \in Hits :
        \A i \in 1..Len(hits) :
            /\ notes[hits[i].id].embedding.set
            /\ notes[hits[i].id].embedding.values # <<>>

\* C15 witness: a search result and a chat context both hold a note newer
\* than a note of null embedding and a note of empty embedding.
C15_Witness ==
    \E null \in DOMAIN notes, empty \in DOMAIN notes :
        /\ ~notes[null].embedding.set
        /\ notes[empty].embedding = Embedding(<<>>)
        /\ \A hits \in Hits :
              \E i \in 1..Len(hits) : hits[i].id > null /\ hits[i].id > empty

\* C16: cosineSimilarity returns 0 when the lengths differ or a norm is zero.
C16_ZeroOnMismatch ==
    (/\ cosine.done
     /\ \/ Len(cosine.a) # Len(cosine.b)
        \/ SumProducts(cosine.a, cosine.a, Len(cosine.a)) = 0
        \/ SumProducts(cosine.b, cosine.b, Len(cosine.b)) = 0)
    => cosine.similarity = 0

\* C16 witness: cosineSimilarity was applied to a zero vector and a non-zero
\* vector of the same length.
C16_Witness ==
    /\ cosine.done
    /\ Len(cosine.a) = Len(cosine.b)
    /\ Len(cosine.a) > 0
    /\ SumProducts(cosine.a, cosine.a, Len(cosine.a)) = 0
    /\ SumProducts(cosine.b, cosine.b, Len(cosine.b)) # 0

\* C17: cosineSimilarity(a, b) = cosineSimilarity(b, a).
C17_Symmetric ==
    cosine.done => cosine.similarity = CosineSimilarity(cosine.b, cosine.a)

\* C17 witness: cosineSimilarity was applied to two vectors of different
\* norms that are neither orthogonal nor parallel.
C17_Witness ==
    /\ cosine.done
    /\ SumProducts(cosine.a, cosine.a, Len(cosine.a))
          # SumProducts(cosine.b, cosine.b, Len(cosine.b))
    /\ cosine.similarity \notin {0, Unit, -Unit}

\* C21: every step keeps the review events that exist, in place and unchanged.
C21_AppendOnly ==
    [][/\ Len(reviews') >= Len(reviews)
       /\ \A i \in 1..Len(reviews) : reviews'[i] = reviews[i]]_vars

\* C21 witness: the log holds two events.
C21_Witness == Len(reviews) >= 2

\* C22: when the update of a review is applied, quality 5 does not lower the
\* ease factor, quality 4 leaves it as it was loaded, and quality 0 lowers
\* it or leaves it at the floor 1.3.
C22_EaseDirection ==
    [][\A s \in Slots :
          Updates(s)
          => LET e == requests[s].flashcard.easeFactor
                 new == flashcards'[requests[s].flashcardId].easeFactor
             IN /\ requests[s].q = 5 => new >= e
                /\ requests[s].q = 4 => new = e
                /\ requests[s].q = 0 => (new < e \/ new = EaseFloor)]_vars

\* C22 witness: a quality-0 review of a card at the floor has been applied
\* and the ease factor stayed at the floor.
C22_Witness ==
    \E s \in Slots :
        /\ requests[s].pc = "createReview"
        /\ requests[s].q = 0
        /\ requests[s].flashcard.easeFactor = EaseFloor
        /\ flashcards[requests[s].flashcardId].easeFactor = EaseFloor

\* A note qualifies for a query: its embedding is neither null nor empty and
\* its similarity to the query is above 0.3.
Qualifies(note, queryEmbedding) ==
    /\ note.embedding.set
    /\ note.embedding.values # <<>>
    /\ CosineSimilarity(queryEmbedding.values, note.embedding.values) > MinScore

\* The ids in a list of hits.
IdsIn(hits) == {hits[i].id : i \in 1..Len(hits)}

\* C23: a search whose query embedding was obtained succeeds, with an empty
\* list when no note qualifies and with every qualifying note (up to the
\* limit) whatever the other notes' embeddings are; a chat in which no note
\* qualifies injects no context and fails only when no reply was produced.
C23_EmptyRankingIsNormal ==
    [][/\ (search' # search /\ search'.query.set)
          => /\ search'.status = 200
             /\ \/ Len(search'.results) = SearchLimit
                \/ \A id \in DOMAIN notes :
                       Qualifies(notes[id], search'.query) => id \in IdsIn(search'.results)
             /\ (\A id \in DOMAIN notes : ~Qualifies(notes[id], search'.query))
                => search'.results = <<>>
       /\ (/\ chat' # chat
           /\ chat'.status # 400
           /\ \/ ~chat'.query.set
              \/ \A id \in DOMAIN notes : ~Qualifies(notes[id], chat'.query))
          => /\ chat'.context = <<>>
             /\ chat'.status = 200 <=> messages' = messages \o <<"user", "assistant">>]_vars

\* C23 witness: a search returned a note that is newer than a note whose
\* embedding has another length than the query, and a chat whose query
\* embedding was obtained was answered without context.
C23_Witness ==
    /\ search.status = 200
    /\ \E i \in 1..Len(search.results), id \in DOMAIN notes :
          /\ search.results[i].id > id
          /\ notes[id].embedding.set
          /\ Len(notes[id].embedding.values) \notin {0, Len(search.query.values)}
    /\ chat.status = 200
    /\ chat.query.set
    /\ chat.context = <<>>

\* C24: whatever is done to the other flashcard and however the handlers are
\* interleaved, a flashcard with no review in progress and at most one
\* logged review is in the state a run of its reviews alone gives: the
\* creation defaults, or one SM-2 transition from them.
C24_NoInterference ==
    \A id \in DOMAIN flashcards :
        (~InFlightOn(id) /\ Len(EventsOf(id)) <= 1)
        => Repetition(flashcards[id]) =
              IF EventsOf(id) = <<>>
              THEN NewFlashcard
              ELSE Sm2(NewFlashcard, QualitiesOf(id)[1])

\* C24 witness: one flashcard's review is logged and finished while the
\* review of the other flashcard, received in the second slot while the
\* first was busy, has had its update applied and is not yet logged.
C24_Witness ==
    \E a \in DOMAIN flashcards, b \in DOMAIN flashcards :
        /\ a # b
        /\ ~InFlightOn(a)
        /\ Len(EventsOf(a)) = 1
        /\ Len(EventsOf(b)) = 0
        /\ requests[1].pc = "idle"
        /\ requests[2].pc = "createReview"
        /\ requests[2].flashcardId = b

\* The similarity to the query of the note with this id.
Score(id, queryEmbedding) ==
    CosineSimilarity(queryEmbedding.values, notes[id].embedding.values)

\* The notes that qualify for the query.
Qualifying(queryEmbedding) ==
    {id \in DOMAIN notes : Qualifies(notes[id], queryEmbedding)}

\* A note with score scoreA comes before a note with score scoreB in the
\* stably sorted list: it scores higher, or they tie and it is newer (the
\* notes list is newest first).
RanksBefore(a, scoreA, b, scoreB) ==
    \/ scoreA > scoreB
    \/ /\ scoreA = scoreB
       /\ a > b

\* C25: the result of a successful search is the first `limit` elements of
\* the stably sorted list of qualifying notes: it holds qualifying notes
\* only, each once and with its score, in sorted order, as many as qualify
\* up to the limit, and every qualifying note left out comes after the last
\* note returned.
C25_TopK ==
    [][(search' # search /\ search'.status = 200)
       => LET results == search'.results
              query == search'.query
              returned == IdsIn(results)
              qualifying == Qualifying(query)
          IN /\ returned \subseteq qualifying
             /\ Cardinality(returned) = Len(results)
             /\ Len(results) = IF Cardinality(qualifying) < SearchLimit
                               THEN Cardinality(qualifying)
                               ELSE SearchLimit
             /\ \A i \in 1..Len(results) :
                   results[i].similarity = Score(results[i].id, query)
             /\ \A i \in 1..(Len(results) - 1) :
                   RanksBefore(results[i].id, results[i].similarity,
                               results[i + 1].id, results[i + 1].similarity)
             /\ \A out \in qualifying \ returned :
                   RanksBefore(results[Len(results)].id,
                               results[Len(results)].similarity,
                               out, Score(out, query))]_vars

\* C25 witness: a search returned `limit` notes and left out a qualifying
\* note that is newer than one returned note and older than another.
C25_Witness ==
    /\ search.status = 200
    /\ Len(search.results) = SearchLimit
    /\ \E out \in Qualifying(search.query) \ IdsIn(search.results) :
          /\ \E i \in 1..Len(search.results) : search.results[i].id < out
          /\ \E i \in 1..Len(search.results) : search.results[i].id > out

\* The handler in slot s runs its SM-2 block in this step.
Computes(s) == requests[s].pc = "getFlashcard" /\ requests'[s].pc = "updateFlashcard"

C30_ChatAllOrNothing ==
    \A i \in 1..Len(messages) :
        messages[i] = "user" => (i < Len(messages) /\ messages[i + 1] = "assistant")

\* The review view presents a flashcard.
CardShown == ReviewShown /\ client.currentIndex < Len(DueFlashcards)

\* C26: while the review view is shown, currentIndex is an index of the due
\* list, so the flashcard handed to the review component is defined.
C26_IndexInRange ==
    ReviewShown =>
        (0 <= client.currentIndex /\ client.currentIndex < Len(DueFlashcards))

\* A review session is over: ratings were given, none is pending and no
\* flashcard is presented.
SessionOver ==
    /\ Len(reviews) > 0
    /\ ~client.isPending
    /\ ~CardShown

\* C27: when the session of a user who rates every flashcard presented is
\* over, each flashcard that was due has been reviewed exactly once.
C27_EachCardOnce ==
    SessionOver => \A id \in DOMAIN flashcards : Len(EventsOf(id)) = 1

\* The days on which some review event was logged.
ReviewDays == {reviews[i].reviewedAt.day : i \in 1..Len(reviews)}

\* The number of consecutive days, ending today, each with a review event.
ConsecutiveDays ==
    CHOOSE n \in 0..(now.day + 1) :
        /\ \A d \in (now.day - n + 1)..now.day : d \in ReviewDays
        /\ (now.day - n) \notin ReviewDays

\* C29: the reviewStreak that getDashboardStats returns is the number of
\* consecutive days, ending today, with at least one review event (0 when
\* there is no review today).
C29_StreakIsConsecutiveDays ==
    [][stats' # stats => stats'.reviewStreak = ConsecutiveDays]_vars

====
